---- MODULE Spec2Model ----
(***************************************************************************)
(* The passive Highway protocol state of highway-core (state.rs, vote.rs): *)
(* the vote, block and evidence stores, the panorama, vote admission with  *)
(* equivocation detection, and the fork choice.                            *)
(*                                                                         *)
(* A panic of the Rust code (unwrap / expect / assert! / index out of      *)
(* range) ends the program: the model records it in `ret` and takes no     *)
(* further step.                                                           *)
(***************************************************************************)
EXTENDS Integers, Sequences, FiniteSets, TLC

VARIABLES weights, votes, blocks, evidence, panorama, call, ret, asked,
          dep_spec, returned, spec_history, wrapper, synchronizer, history

vars == <<weights, votes, blocks, evidence, panorama, call, ret, asked,
          dep_spec, returned, spec_history, wrapper, synchronizer, history>>

state == <<weights, votes, blocks, evidence, panorama>>

\* what is not part of the Highway state and not the last call and result:
\* `asked` remembers the first fork_choice call, its state and its result, so
\* that the later calls can be compared with it
\* `dep_spec` is a PotholeDepSpec (pothole.rs) and `returned` the dependencies
\* its next_dependency has returned since it was made
\* `wrapper` is the PotholeWrapper and `synchronizer` the Synchronizer of a
\* PotholeWithSynchronizer; `history` remembers what the Pothole produced,
\* what poll returned and what handle_new_item answered
\* `spec_history` remembers the dependencies dep_spec was made of and those
\* passed to its resolve_dependency since
aux == <<asked, dep_spec, returned, spec_history, wrapper, synchronizer,
         history>>

(***************************************************************************)
(* Bounds of the model.                                                    *)
(***************************************************************************)
\* add_vote stores a new vote only while fewer than MaxVotes are stored
MaxVotes == 7
\* the largest seq_number an incoming wire vote carries
MaxSeq == 2

\* the greatest block index of the Pothole chain
MaxIndex == 2

\* the greatest sequence number of the swimlanes of tests::find_in_swimlane
MaxLane == 4

(***************************************************************************)
(* The validators and weights of the tests (tests::WEIGHTS).              *)
(***************************************************************************)
WEIGHTS == <<3, 4, 5>>

ValidatorIndices == 0 .. (Len(WEIGHTS) - 1)

(***************************************************************************)
(* Option<T>, and the outcome of a computation that may panic.             *)
(***************************************************************************)
NoneOpt == <<>>

Some(x) == <<x>>

Unwrap(opt) == opt[1]

\* the value standing for "this call panicked"
PANIC == -1

\* the same for a call that returns an Option
OptPanic == <<PANIC, PANIC>>

\* three-valued outcome of a bool-returning function that may panic
T == "true"

F == "false"

P == "panic"

Bool3(b) == IF b THEN T ELSE F

Min(S) == CHOOSE x \in S : \A y \in S : x <= y

Max(S) == CHOOSE x \in S : \A y \in S : x >= y

\* Iterator::all over per-index outcomes, in ascending index order with
\* short-circuit: the first outcome that is not true decides.
all(results) ==
    LET bad == {i \in DOMAIN results : results[i] # T}
    IN  IF bad = {} THEN T ELSE results[Min(bad)]

(***************************************************************************)
(* Observation and Panorama (vote.rs).                                     *)
(***************************************************************************)
ObsNone == [tag |-> "None"]

ObsFaulty == [tag |-> "Faulty"]

Correct(hash) == [tag |-> "Correct", hash |-> hash]

correct(obs) == IF obs.tag = "Correct" THEN Some(obs.hash) ELSE NoneOpt

is_correct(obs) == obs.tag = "Correct"

PanoramaNew(num_validators) == [idx \in 0 .. (num_validators - 1) |-> ObsNone]

is_empty(pan) == ~(\E idx \in DOMAIN pan : is_correct(pan[idx]))

\* Panorama::update that writes the observation to every index
PanoramaUpdate_everywhere(pan, idx, obs) == [i \in DOMAIN pan |-> obs]

PanoramaUpdate(pan, idx, obs) == [pan EXCEPT ![idx] = obs]

(***************************************************************************)
(* WireVote: {panorama, sender, values, seq_number} (state.rs 163-168).    *)
(* Its hash is the digest of its serialized form.  The digest is a 16-bit  *)
(* polynomial hash standing for the 64-bit hasher of the test context; it  *)
(* has no collision on the wire votes of the model (HashCollisionFree).    *)
(***************************************************************************)
WireVote(pan, sender, values, seq_number) ==
    [panorama |-> pan, sender |-> sender, values |-> values,
     seq_number |-> seq_number]

SerializeObs(obs) ==
    IF obs.tag = "None" THEN <<0>>
    ELSE IF obs.tag = "Correct" THEN <<1, obs.hash>>
    ELSE <<2>>

RECURSIVE SerializePanorama(_, _)
SerializePanorama(pan, idx) ==
    IF idx \notin DOMAIN pan THEN <<>>
    ELSE SerializeObs(pan[idx]) \o SerializePanorama(pan, idx + 1)

Serialize(wvote) ==
    SerializePanorama(wvote.panorama, 0)
    \o <<wvote.sender>>
    \o (IF wvote.values = <<>> THEN <<0>>
        ELSE <<1, Len(wvote.values[1])>> \o wvote.values[1])
    \o <<wvote.seq_number>>

RECURSIVE DigestFrom(_, _, _)
DigestFrom(h, data, i) ==
    IF i > Len(data) THEN h
    ELSE DigestFrom((h * 31 + data[i] + 1) % 65521, data, i + 1)

Digest(data) == DigestFrom(7, data, 1)

Hash(wvote) == Digest(Serialize(wvote))

with_error(wvote, cause) == [tag |-> "Err", wvote |-> wvote, cause |-> cause]

(***************************************************************************)
(* Lookups of State.                                                       *)
(***************************************************************************)
has_evidence(idx) == idx \in DOMAIN evidence

has_vote(hash) == hash \in DOMAIN votes

opt_vote(hash) == IF hash \in DOMAIN votes THEN Some(votes[hash]) ELSE NoneOpt

opt_block(hash) == IF hash \in DOMAIN blocks THEN Some(blocks[hash]) ELSE NoneOpt

(***************************************************************************)
(* log2, trailing_zeros.                                                   *)
(***************************************************************************)
RECURSIVE next_power_of_two_from(_, _)
next_power_of_two_from(p, x) ==
    IF p >= x THEN p ELSE next_power_of_two_from(2 * p, x)

\* u64::next_power_of_two: the smallest power of two >= x
next_power_of_two(x) == next_power_of_two_from(1, x)

RECURSIVE trailing_zeros(_)
trailing_zeros(x) ==
    IF x = 0 THEN 64
    ELSE IF x % 2 = 1 THEN 0 ELSE 1 + trailing_zeros(x \div 2)

log2(x) ==
    LET next_pow2 == next_power_of_two(x + 1)
        prev_pow2 == next_pow2 \div 2
    IN  trailing_zeros(prev_pow2)

(***************************************************************************)
(* Swimlane lookup and panorama comparison (state.rs 264-332).             *)
(***************************************************************************)
\* find_in_swimlane always taking the longest step of the skip list
RECURSIVE find_in_swimlane_greedy(_, _)
find_in_swimlane_greedy(hash, seq_number) ==
    IF ~has_vote(hash) THEN PANIC
    ELSE LET vote == votes[hash]
         IN  IF vote.seq_number = seq_number THEN hash
             ELSE IF ~(vote.seq_number > seq_number) THEN PANIC
             ELSE IF Len(vote.skip_idx) = 0 THEN PANIC
             ELSE find_in_swimlane_greedy(vote.skip_idx[Len(vote.skip_idx)],
                                          seq_number)

RECURSIVE find_in_swimlane(_, _)
find_in_swimlane(hash, seq_number) ==
    IF ~has_vote(hash) THEN PANIC
    ELSE LET vote == votes[hash]
         IN  IF vote.seq_number = seq_number THEN hash
             ELSE IF ~(vote.seq_number > seq_number) THEN PANIC
             ELSE IF Len(vote.skip_idx) = 0 THEN PANIC
             ELSE LET diff == vote.seq_number - seq_number
                      max_i == log2(diff)
                      i == Min({max_i, Len(vote.skip_idx) - 1})
                  IN  find_in_swimlane(vote.skip_idx[i + 1], seq_number)

sees_correct(pan, hash) ==
    IF ~has_vote(hash) THEN P
    ELSE LET vote == votes[hash]
             latest == correct(pan[vote.sender])
         IN  IF latest = NoneOpt THEN F
             ELSE LET found == find_in_swimlane(Unwrap(latest), vote.seq_number)
                  IN  IF found = PANIC THEN P ELSE Bool3(hash = found)

obs_geq(obs_l, obs_r) ==
    IF obs_l = ObsFaulty \/ obs_r = ObsNone THEN T
    ELSE IF is_correct(obs_l) /\ is_correct(obs_r)
         THEN IF obs_l.hash = obs_r.hash THEN T
              ELSE IF ~has_vote(obs_l.hash) THEN P
              ELSE sees_correct(votes[obs_l.hash].panorama, obs_r.hash)
         ELSE F

panorama_geq(pan_l, pan_r) ==
    all([idx \in DOMAIN pan_l |-> obs_geq(pan_l[idx], pan_r[idx])])

is_panorama_valid(pan) ==
    all([idx \in DOMAIN pan |->
            IF pan[idx] = ObsNone THEN T
            ELSE IF pan[idx] = ObsFaulty THEN Bool3(has_evidence(idx))
            ELSE LET ov == opt_vote(pan[idx].hash)
                 IN  IF ov = NoneOpt THEN F
                     ELSE IF Unwrap(ov).sender # idx THEN F
                     ELSE panorama_geq(pan, Unwrap(ov).panorama)])

\* the panorama check refusing every panorama without a Correct observation
check_panorama_nonempty(wvote) ==
    LET valid == is_panorama_valid(wvote.panorama)
    IN  IF is_empty(wvote.panorama) THEN "Panorama"
        ELSE IF valid = P THEN "Panic"
        ELSE IF valid = F THEN "Panorama"
        ELSE "Ok"

\* the panorama check of validate_vote: "Ok", "Panorama", or "Panic"
check_panorama(wvote) ==
    LET valid == is_panorama_valid(wvote.panorama)
    IN  IF wvote.values = NoneOpt /\ is_empty(wvote.panorama) THEN "Panorama"
        ELSE IF valid = P THEN "Panic"
        ELSE IF valid = F THEN "Panorama"
        ELSE "Ok"

\* validate_vote without the sequence number check
validate_vote_any_seq(wvote) ==
    LET checked == check_panorama(wvote)
    IN  IF checked # "Ok" THEN checked
        ELSE IF wvote.panorama[wvote.sender] = ObsFaulty THEN "Panorama"
        ELSE "Ok"

\* validate_vote expecting the sequence number of the previous vote itself
validate_vote_same_seq(wvote) ==
    LET checked == check_panorama(wvote)
        own == wvote.panorama[wvote.sender]
    IN  IF checked # "Ok" THEN checked
        ELSE IF own = ObsFaulty THEN "Panorama"
        ELSE LET expected_seq_number ==
                     IF own = ObsNone THEN 0 ELSE votes[own.hash].seq_number
             IN  IF wvote.seq_number # expected_seq_number
                 THEN "SequenceNumber"
                 ELSE "Ok"

\* "Ok", Err("Panorama"), Err("SequenceNumber"), or "Panic"
validate_vote(wvote) ==
    LET checked == check_panorama(wvote)
        own == wvote.panorama[wvote.sender]
    IN  IF checked # "Ok" THEN checked
        ELSE IF own = ObsFaulty THEN "Panorama"
        ELSE LET expected_seq_number ==
                     IF own = ObsNone THEN 0
                     ELSE 1 + votes[own.hash].seq_number
             IN  IF wvote.seq_number # expected_seq_number
                 THEN "SequenceNumber"
                 ELSE "Ok"

(***************************************************************************)
(* Evidence: Equivocation(vote0, vote1), accused validator = the sender.   *)
(***************************************************************************)
Equivocation(wvote0, wvote1) == [vote0 |-> wvote0, vote1 |-> wvote1]

perpetrator(ev) == ev.vote0.sender

\* HashMap::insert: adds the key, or replaces the value stored under it
MapInsert(map, key, value) ==
    [k \in DOMAIN map \cup {key} |-> IF k = key THEN value ELSE map[k]]

\* the evidence store after add_evidence(ev)
add_evidence(ev) == MapInsert(evidence, perpetrator(ev), ev)

\* wire_vote that does not look up the block of the vote
wire_vote_without_values(hash) ==
    IF ~has_vote(hash) THEN NoneOpt
    ELSE Some(WireVote(votes[hash].panorama, votes[hash].sender, NoneOpt,
                       votes[hash].seq_number))

wire_vote(hash) ==
    IF ~has_vote(hash) THEN NoneOpt
    ELSE LET vote == votes[hash]
             opt_b == opt_block(hash)
             values == IF opt_b = NoneOpt THEN NoneOpt
                       ELSE Some(Unwrap(opt_b).values)
         IN  Some(WireVote(vote.panorama, vote.sender, values, vote.seq_number))

(***************************************************************************)
(* update_panorama (state.rs 246-262): the panorama and the evidence store *)
(* after the update, or a panic.                                           *)
(***************************************************************************)
Updated(pan, ev) == [panic |-> FALSE, panorama |-> pan, evidence |-> ev]

UpdatePanicked == [panic |-> TRUE, panorama |-> panorama, evidence |-> evidence]

\* the arm (Correct(hash0), _): the vote does not continue the sender's
\* latest vote hash0
update_equivocation(wvote, hash0) ==
    LET sender == wvote.sender
        faulty == PanoramaUpdate(panorama, sender, ObsFaulty)
    IN  IF has_evidence(sender) THEN Updated(faulty, evidence)
        ELSE LET prev0 == find_in_swimlane(hash0, wvote.seq_number)
                 wvote0 == wire_vote(prev0)
             IN  IF prev0 = PANIC \/ wvote0 = NoneOpt THEN UpdatePanicked
                 ELSE Updated(faulty,
                              add_evidence(Equivocation(Unwrap(wvote0), wvote)))

\* update_panorama that leaves the panorama as it is
update_panorama_keeping(wvote) == Updated(panorama, evidence)

\* update_panorama taking every vote for the sender's next vote
update_panorama_trusting(wvote) ==
    IF panorama[wvote.sender] = ObsFaulty
    THEN Updated(PanoramaUpdate(panorama, wvote.sender, ObsFaulty), evidence)
    ELSE Updated(PanoramaUpdate(panorama, wvote.sender, Correct(Hash(wvote))),
                 evidence)

\* update_panorama without the arm (Faulty, _)
update_panorama_forgiving(wvote) ==
    LET sender == wvote.sender
        obs0 == panorama[sender]
        obs1 == wvote.panorama[sender]
    IN  IF obs0 = obs1 \/ obs0 = ObsFaulty
        THEN Updated(PanoramaUpdate(panorama, sender, Correct(Hash(wvote))),
                     evidence)
        ELSE IF obs0 = ObsNone THEN UpdatePanicked
        ELSE update_equivocation(wvote, obs0.hash)

update_panorama(wvote) ==
    LET sender == wvote.sender
        obs0 == panorama[sender]
        obs1 == wvote.panorama[sender]
    IN  IF obs0 = ObsFaulty
        THEN Updated(PanoramaUpdate(panorama, sender, ObsFaulty), evidence)
        ELSE IF obs0 = obs1
        THEN Updated(PanoramaUpdate(panorama, sender, Correct(Hash(wvote))),
                     evidence)
        ELSE IF obs0 = ObsNone THEN UpdatePanicked
        ELSE update_equivocation(wvote, obs0.hash)

(***************************************************************************)
(* Blocks: parent, height, skip_idx over the ancestry, values.             *)
(***************************************************************************)
RECURSIVE block_skip_idx(_, _, _)
block_skip_idx(skip_idx, i, n) ==
    IF i >= n THEN skip_idx
    ELSE block_skip_idx(Append(skip_idx, blocks[skip_idx[i + 1]].skip_idx[i + 1]),
                        i + 1, n)

BlockNew(parent, values) ==
    IF parent = NoneOpt
    THEN [parent |-> NoneOpt, height |-> 0, skip_idx |-> <<>>, values |-> values]
    ELSE LET height == blocks[Unwrap(parent)].height + 1
         IN  [parent |-> parent, height |-> height,
              skip_idx |-> block_skip_idx(<<Unwrap(parent)>>, 0,
                                          trailing_zeros(height)),
              values |-> values]

\* find_ancestor always taking the longest step of the skip list
RECURSIVE find_ancestor_greedy(_, _)
find_ancestor_greedy(hash, height) ==
    IF hash \notin DOMAIN blocks THEN OptPanic
    ELSE LET block == blocks[hash]
         IN  IF block.height < height THEN NoneOpt
             ELSE IF block.height = height THEN Some(hash)
             ELSE IF Len(block.skip_idx) = 0 THEN OptPanic
             ELSE find_ancestor_greedy(block.skip_idx[Len(block.skip_idx)],
                                       height)

RECURSIVE find_ancestor(_, _)
find_ancestor(hash, height) ==
    IF hash \notin DOMAIN blocks THEN OptPanic
    ELSE LET block == blocks[hash]
         IN  IF block.height < height THEN NoneOpt
             ELSE IF block.height = height THEN Some(hash)
             ELSE IF Len(block.skip_idx) = 0 THEN OptPanic
             ELSE LET diff == block.height - height
                      max_i == log2(diff)
                      i == Min({max_i, Len(block.skip_idx) - 1})
                  IN  find_ancestor(block.skip_idx[i + 1], height)

(***************************************************************************)
(* Tallies: the weight of the votes for each block, blocks ordered by      *)
(* height.  A tally is a function from block hash to summed weight.        *)
(***************************************************************************)
RECURSIVE SumOver(_, _)
SumOver(f, S) ==
    IF S = {} THEN 0
    ELSE LET x == CHOOSE y \in S : TRUE IN f[x] + SumOver(f, S \ {x})

EmptyTally == [b \in {} |-> 0]

tally_weight(tally) == SumOver(tally, DOMAIN tally)

tally_max_w(tally) == Max({tally[b] : b \in DOMAIN tally})

\* the block with the highest weight
tally_max_bhash(tally) ==
    CHOOSE b \in DOMAIN tally : tally[b] = tally_max_w(tally)

\* the votes of a tally for blocks at one height
tally_at(tally, height) ==
    [b \in {c \in DOMAIN tally : blocks[c].height = height} |-> tally[b]]

tally_add(t1, t2) ==
    [b \in DOMAIN t1 \cup DOMAIN t2 |->
        (IF b \in DOMAIN t1 THEN t1[b] ELSE 0)
        + (IF b \in DOMAIN t2 THEN t2[b] ELSE 0)]

\* every block's weight moved to its parent
tally_parents(tally) ==
    [p \in {Unwrap(blocks[b].parent) : b \in DOMAIN tally} |->
        SumOver(tally, {b \in DOMAIN tally : Unwrap(blocks[b].parent) = p})]

\* the votes for blocks whose ancestor at `height` is `bhash`
tally_filter_descendants(tally, height, bhash) ==
    [b \in {c \in DOMAIN tally : find_ancestor(c, height) = Some(bhash)} |->
        tally[b]]

RECURSIVE find_decided_below(_, _, _, _)
find_decided_below(tallies, prev_tally, upper, total_weight) ==
    IF upper = 0 THEN <<0, tally_max_bhash(prev_tally)>>
    ELSE LET height == upper - 1
             h_tally == tally_add(tally_parents(prev_tally),
                                  tally_at(tallies, height))
         IN  IF tally_max_w(h_tally) * 2 > total_weight
             THEN LET filtered ==
                          tally_filter_descendants(prev_tally, height,
                                                   tally_max_bhash(h_tally))
                  IN  IF DOMAIN filtered # {}
                      THEN <<height + 1, tally_max_bhash(filtered)>>
                      ELSE <<height, tally_max_bhash(h_tally)>>
             ELSE find_decided_below(tallies, h_tally, height, total_weight)

\* the highest block known to be an ancestor of the fork choice
find_decided(tallies) ==
    IF DOMAIN tallies = {} THEN NoneOpt
    ELSE LET max_height == Max({blocks[b].height : b \in DOMAIN tallies})
         IN  Some(find_decided_below(tallies, tally_at(tallies, max_height),
                                     max_height, tally_weight(tallies)))

\* drops the votes for blocks that are not above `bhash`
filter_descendants(tallies, height, bhash) ==
    tally_filter_descendants(
        [b \in {c \in DOMAIN tallies : blocks[c].height > height} |-> tallies[b]],
        height, bhash)

\* the tallies collected from the correct observations of `pan`
collect_tallies(pan) ==
    LET voters(b) == {idx \in DOMAIN pan :
                        /\ is_correct(pan[idx])
                        /\ votes[pan[idx].hash].block = b}
        voted == {votes[pan[idx].hash].block :
                    idx \in {i \in DOMAIN pan : is_correct(pan[i])}}
    IN  [b \in voted |-> SumOver([idx \in DOMAIN pan |-> weights[idx + 1]],
                                 voters(b))]

\* fork_choice returning the first decided block without narrowing further
fork_choice_first_decided(tallies) ==
    LET decided == find_decided(tallies)
    IN  IF decided = NoneOpt THEN NoneOpt ELSE Some(Unwrap(decided)[2])

RECURSIVE fork_choice_loop(_)
fork_choice_loop(tallies) ==
    LET decided == find_decided(tallies)
    IN  IF decided = NoneOpt THEN NoneOpt
        ELSE LET height == Unwrap(decided)[1]
                 bhash == Unwrap(decided)[2]
                 rest == filter_descendants(tallies, height, bhash)
             IN  IF DOMAIN rest = {} THEN Some(bhash)
                 ELSE fork_choice_loop(rest)

\* fork_choice reading the state's own panorama instead of its argument
fork_choice_of_state(pan) == fork_choice_loop(collect_tallies(panorama))

\* fork_choice leaving out the validators against whom the state holds
\* evidence
fork_choice_without_faulty(pan) ==
    IF \E idx \in DOMAIN pan :
          /\ is_correct(pan[idx])
          /\ \/ ~has_vote(pan[idx].hash)
             \/ votes[pan[idx].hash].block \notin DOMAIN blocks
    THEN OptPanic
    ELSE fork_choice_loop(collect_tallies(
             [idx \in DOMAIN pan |->
                 IF has_evidence(idx) THEN ObsFaulty ELSE pan[idx]]))

\* fork_choice leaving out the validators the state's panorama has as Faulty
fork_choice_without_equivocators(pan) ==
    IF \E idx \in DOMAIN pan :
          /\ is_correct(pan[idx])
          /\ \/ ~has_vote(pan[idx].hash)
             \/ votes[pan[idx].hash].block \notin DOMAIN blocks
    THEN OptPanic
    ELSE fork_choice_loop(collect_tallies(
             [idx \in DOMAIN pan |->
                 IF panorama[idx] = ObsFaulty THEN ObsFaulty ELSE pan[idx]]))

\* fork_choice giving up at the first observation that is not Correct
fork_choice_all_correct(pan) ==
    IF \E idx \in DOMAIN pan :
          /\ is_correct(pan[idx])
          /\ \/ ~has_vote(pan[idx].hash)
             \/ votes[pan[idx].hash].block \notin DOMAIN blocks
    THEN OptPanic
    ELSE IF \E idx \in DOMAIN pan : ~is_correct(pan[idx]) THEN NoneOpt
    ELSE fork_choice_loop(collect_tallies(pan))

\* Option<hash>, or OptPanic when `pan` cites a vote or block that is not stored
fork_choice(pan) ==
    IF \E idx \in DOMAIN pan :
          /\ is_correct(pan[idx])
          /\ \/ ~has_vote(pan[idx].hash)
             \/ votes[pan[idx].hash].block \notin DOMAIN blocks
    THEN OptPanic
    ELSE fork_choice_loop(collect_tallies(pan))

(***************************************************************************)
(* Vote::new (vote.rs 113-150).                                            *)
(***************************************************************************)
RECURSIVE vote_skip_idx(_, _, _)
vote_skip_idx(skip_idx, i, n) ==
    IF i >= n THEN [panic |-> FALSE, skip_idx |-> skip_idx]
    ELSE IF ~has_vote(skip_idx[i + 1]) THEN [panic |-> TRUE, skip_idx |-> <<>>]
    ELSE LET old_vote == votes[skip_idx[i + 1]]
         IN  IF Len(old_vote.skip_idx) < i + 1
             THEN [panic |-> TRUE, skip_idx |-> <<>>]
             ELSE vote_skip_idx(Append(skip_idx, old_vote.skip_idx[i + 1]),
                                i + 1, n)

\* Vote::new with the previous vote as the only entry of skip_idx
VoteNew_previous_only(wvote, fc) ==
    LET prev == correct(wvote.panorama[wvote.sender])
        block == IF wvote.values # NoneOpt THEN Some(Hash(wvote)) ELSE fc
    IN  IF block = NoneOpt
        THEN [panic |-> TRUE]
        ELSE [panic |-> FALSE,
              vote |-> [panorama |-> wvote.panorama,
                        seq_number |-> wvote.seq_number,
                        sender |-> wvote.sender,
                        block |-> Unwrap(block),
                        skip_idx |-> prev]]

\* the stored Vote, or a panic
VoteNew(wvote, fc) ==
    LET prev == correct(wvote.panorama[wvote.sender])
        skip == IF prev = NoneOpt THEN [panic |-> FALSE, skip_idx |-> <<>>]
                ELSE vote_skip_idx(<<Unwrap(prev)>>, 0,
                                   trailing_zeros(wvote.seq_number))
        block == IF wvote.values # NoneOpt THEN Some(Hash(wvote)) ELSE fc
    IN  IF block = NoneOpt \/ skip.panic
        THEN [panic |-> TRUE]
        ELSE [panic |-> FALSE,
              vote |-> [panorama |-> wvote.panorama,
                        seq_number |-> wvote.seq_number,
                        sender |-> wvote.sender,
                        block |-> Unwrap(block),
                        skip_idx |-> skip.skip_idx]]

(***************************************************************************)
(* State::new, add_vote, add_evidence.                                     *)
(***************************************************************************)
EmptyMap == [k \in {} |-> 0]

RetOk == [tag |-> "Ok"]

RetPanic == [tag |-> "Panic"]

Init ==
    /\ weights = WEIGHTS
    /\ votes = EmptyMap
    /\ blocks = EmptyMap
    /\ evidence = EmptyMap
    /\ panorama = PanoramaNew(Len(WEIGHTS))
    /\ call = [op |-> "new"]
    /\ ret = RetOk
    /\ asked = NoneOpt
    /\ dep_spec = [to_request |-> {}, requested |-> {}]
    /\ returned = <<>>
    /\ spec_history = [deps |-> {}, resolved |-> {}]
    /\ wrapper = [pothole |-> <<>>, finalized_block_queue |-> <<>>]
    /\ synchronizer = << >>
    /\ history = [produced |-> <<>>, delivered |-> <<>>, accepted |-> <<>>,
                  named |-> [index \in 0 .. MaxIndex |-> {}]]

(***************************************************************************)
(* The inputs.  The wire votes are those of tests::add_vote (a0, b0, c0,   *)
(* b1, a1, b2 and the two rejected votes of CAROL), votes that equivocate  *)
(* with them, and malformed votes; b0 and a1 are offered with every        *)
(* sequence number up to MaxSeq.                                           *)
(***************************************************************************)
ALICE == 0

BOB == 1

CAROL == 2

N == ObsNone

Fa == ObsFaulty

C(wvote) == Correct(Hash(wvote))

Pan(oa, ob, oc) == [idx \in ValidatorIndices |->
                      IF idx = ALICE THEN oa ELSE IF idx = BOB THEN ob ELSE oc]

a0 == WireVote(Pan(N, N, N), ALICE, Some(<<10>>), 0)

b0 == WireVote(Pan(N, N, N), BOB, Some(<<11>>), 0)

c0 == WireVote(Pan(N, C(b0), N), CAROL, NoneOpt, 0)

b1 == WireVote(Pan(N, C(b0), C(c0)), BOB, NoneOpt, 1)

a1 == WireVote(Pan(C(a0), C(b1), C(c0)), ALICE, NoneOpt, 1)

\* ALICE equivocates: ae1 does not see a1
ae1 == WireVote(Pan(C(a0), C(b0), N), ALICE, NoneOpt, 1)

\* a third vote of ALICE with sequence number 1, proposing a block
ae1v == WireVote(Pan(C(a0), N, N), ALICE, Some(<<12>>), 1)

\* BOB sees the equivocation
b2 == WireVote(Pan(Fa, C(b1), C(c0)), BOB, NoneOpt, 2)

c1 == WireVote(Pan(Fa, C(b2), C(c0)), CAROL, NoneOpt, 1)

\* wrong sequence number: CAROL has not produced a vote number 1 yet
c_seq == WireVote(Pan(N, C(b1), C(c0)), CAROL, NoneOpt, 2)

\* inconsistent: sees b1 but not c0, which b1 saw
c_omits == WireVote(Pan(N, C(b1), N), CAROL, NoneOpt, 1)

\* cites c1, which saw b2, but BOB's older vote b1
c_older == WireVote(Pan(Fa, C(b1), C(c1)), CAROL, NoneOpt, 2)

\* cites BOB's vote b0 under ALICE's index
c_index == WireVote(Pan(C(b0), N, N), CAROL, Some(<<13>>), 0)

\* no values and no correct observation
a_empty == WireVote(Pan(N, N, N), ALICE, NoneOpt, 0)

\* the sender sees itself as faulty
a_faulty == WireVote(Pan(Fa, C(b1), C(c0)), ALICE, NoneOpt, 2)

\* no values and no correct observation, but a Faulty one
b_only_faulty == WireVote(Pan(Fa, N, N), BOB, NoneOpt, 0)

SeqVariants(v) ==
    {WireVote(v.panorama, v.sender, v.values, seq_number) :
        seq_number \in 0 .. MaxSeq}

WireVotes ==
    {a0, b0, c0, b1, a1, ae1, ae1v, b2, c1,
     c_seq, c_omits, c_older, c_index, a_empty, a_faulty, b_only_faulty}
    \cup SeqVariants(b0) \cup SeqVariants(a1)

\* the proofs that peers may send: ALICE's votes a1 and ae1, in either order
Evidences == {Equivocation(a1, ae1), Equivocation(ae1, a1)}

\* add_vote building the vote and the block on the fork choice of the state's
\* panorama instead of the vote's
add_vote_accept_on_latest(wvote) ==
    LET up == update_panorama(wvote)
        hash == Hash(wvote)
        fc == fork_choice(panorama)
        vn == VoteNew(wvote, fc)
    IN  IF up.panic \/ fc = OptPanic \/ vn.panic
        THEN ret' = RetPanic /\ UNCHANGED state
        ELSE /\ ret' = RetOk
             /\ panorama' = up.panorama
             /\ evidence' = up.evidence
             /\ blocks' = IF wvote.values # NoneOpt
                          THEN MapInsert(blocks, hash,
                                         BlockNew(fc, Unwrap(wvote.values)))
                          ELSE blocks
             /\ votes' = MapInsert(votes, hash, vn.vote)
             /\ UNCHANGED weights

\* add_vote after validation: update_panorama, fork choice, Vote::new,
\* Block::new and the two inserts (state.rs 142-151)
add_vote_accept(wvote) ==
    LET up == update_panorama(wvote)
        hash == Hash(wvote)
        fc == fork_choice(wvote.panorama)
        vn == VoteNew(wvote, fc)
    IN  IF up.panic
        THEN ret' = RetPanic /\ UNCHANGED state
        ELSE IF fc = OptPanic \/ vn.panic
        THEN /\ ret' = RetPanic
             /\ panorama' = up.panorama
             /\ evidence' = up.evidence
             /\ UNCHANGED <<weights, votes, blocks>>
        ELSE /\ ret' = RetOk
             /\ panorama' = up.panorama
             /\ evidence' = up.evidence
             /\ blocks' = IF wvote.values # NoneOpt
                          THEN MapInsert(blocks, hash,
                                         BlockNew(fc, Unwrap(wvote.values)))
                          ELSE blocks
             /\ votes' = MapInsert(votes, hash, vn.vote)
             /\ UNCHANGED weights

\* add_vote updating the panorama before it validates the vote
add_vote_update_first(wvote) ==
    LET res == validate_vote(wvote)
        up == update_panorama(wvote)
    IN  IF res = "Panic"
        THEN ret' = RetPanic /\ UNCHANGED state
        ELSE IF res # "Ok"
        THEN /\ ret' = with_error(wvote, res)
             /\ panorama' = up.panorama
             /\ evidence' = up.evidence
             /\ UNCHANGED <<weights, votes, blocks>>
        ELSE add_vote_accept(wvote)

add_vote(wvote) ==
    LET res == validate_vote(wvote)
    IN  IF res = "Panic"
        THEN ret' = RetPanic /\ UNCHANGED state
        ELSE IF res # "Ok"
        THEN ret' = with_error(wvote, res) /\ UNCHANGED state
        ELSE add_vote_accept(wvote)

AddVote ==
    \E wvote \in WireVotes :
        /\ ret # RetPanic
        /\ \/ Cardinality(DOMAIN votes) < MaxVotes
           \/ has_vote(Hash(wvote))
           \/ validate_vote(wvote) # "Ok"
        /\ call' = [op |-> "add_vote", wvote |-> wvote]
        /\ add_vote(wvote)
        /\ UNCHANGED aux

AddEvidence ==
    \E ev \in Evidences :
        /\ ret # RetPanic
        /\ call' = [op |-> "add_evidence", evidence |-> ev]
        /\ evidence' = add_evidence(ev)
        /\ ret' = RetOk
        /\ UNCHANGED <<weights, votes, blocks, panorama>>
        /\ UNCHANGED aux

Next == AddVote \/ AddEvidence

Spec == Init /\ [][Next]_vars

(***************************************************************************)
(* Vote::previous (vote.rs) and State::swimlane: the votes of one sender,  *)
(* newest first, from the given vote back to its first.                    *)
(***************************************************************************)
previous(vote) ==
    IF vote.skip_idx = <<>> THEN NoneOpt ELSE Some(vote.skip_idx[1])

RECURSIVE swimlane(_)
swimlane(vhash) ==
    LET next == previous(votes[vhash])
    IN  <<vhash>> \o (IF next = NoneOpt THEN <<>> ELSE swimlane(Unwrap(next)))

(***************************************************************************)
(* missing_dependency (state.rs 171-175, 334-343): the first reference of  *)
(* a panorama, in the order of the validator indices, that is not stored.  *)
(***************************************************************************)
DependencyEvidence(idx) == [tag |-> "Evidence", idx |-> idx]

DependencyVote(hash) == [tag |-> "Vote", hash |-> hash]

missing_obs_dep(idx, obs) ==
    IF obs = ObsFaulty /\ ~has_evidence(idx) THEN Some(DependencyEvidence(idx))
    ELSE IF is_correct(obs) /\ ~has_vote(obs.hash)
    THEN Some(DependencyVote(obs.hash))
    ELSE NoneOpt

\* missing_dependency taking the last unsatisfied reference
missing_dependency_last(pan) ==
    LET missing == {idx \in DOMAIN pan : missing_obs_dep(idx, pan[idx]) # NoneOpt}
    IN  IF missing = {} THEN NoneOpt
        ELSE missing_obs_dep(Max(missing), pan[Max(missing)])

missing_dependency(pan) ==
    LET missing == {idx \in DOMAIN pan : missing_obs_dep(idx, pan[idx]) # NoneOpt}
    IN  IF missing = {} THEN NoneOpt
        ELSE missing_obs_dep(Min(missing), pan[Min(missing)])

(***************************************************************************)
(* The queries of State next to add_vote: fork_choice, wire_vote and       *)
(* missing_dependency take &self and return a value.  The votes are those  *)
(* of tests::fork_choice (state.rs 490-515):                               *)
(*                                                                         *)
(*              a0 --- a1                                                  *)
(*            /    \                                                       *)
(*        b0         b2                                                    *)
(*            \                                                            *)
(*              c0 --- c1                                                  *)
(***************************************************************************)
fork_b0 == WireVote(Pan(N, N, N), BOB, Some(<<176>>), 0)

fork_c0 == WireVote(Pan(N, C(fork_b0), N), CAROL, Some(<<192>>), 0)

fork_c1 == WireVote(Pan(N, C(fork_b0), C(fork_c0)), CAROL, Some(<<193>>), 1)

fork_a0 == WireVote(Pan(N, C(fork_b0), N), ALICE, Some(<<160>>), 0)

\* just a ballot
fork_b1 == WireVote(Pan(C(fork_a0), C(fork_b0), N), BOB, NoneOpt, 1)

fork_a1 ==
    WireVote(Pan(C(fork_a0), C(fork_b1), C(fork_c1)), ALICE, Some(<<161>>), 1)

fork_b2 == WireVote(Pan(C(fork_a0), C(fork_b1), N), BOB, Some(<<178>>), 2)

\* a block of BOB on b0 that sees neither a0 nor c0: a third child of b0
fork_b1v == WireVote(Pan(N, C(fork_b0), N), BOB, Some(<<177>>), 1)

ForkVotes ==
    {fork_b0, fork_c0, fork_c1, fork_a0, fork_b1, fork_a1, fork_b2, fork_b1v}

\* the panoramas the queries are asked about, next to the state's own
QueryPanoramas ==
    {wvote.panorama : wvote \in ForkVotes}
        \cup {Pan(C(fork_a1), C(fork_b2), C(fork_c1)),
              Pan(C(fork_a0), C(fork_b1v), C(fork_c1)),
              Pan(Fa, C(fork_b2), C(fork_c1)),
              Pan(C(fork_a1), Fa, C(fork_c1)),
              Pan(Fa, Fa, N)}

\* the hashes wire_vote is asked about: those of the votes and an unknown one
QueryHashes == {Hash(wvote) : wvote \in ForkVotes} \cup {42}

RetValue(value) == [tag |-> "Value", value |-> value]

AddForkVote ==
    \E wvote \in ForkVotes :
        /\ ret # RetPanic
        /\ call' = [op |-> "add_vote", wvote |-> wvote]
        /\ add_vote(wvote)
        /\ UNCHANGED aux

ForkChoice ==
    \E pan \in QueryPanoramas \cup {panorama} :
        /\ ret # RetPanic
        /\ call' = [op |-> "fork_choice", pan |-> pan]
        /\ ret' = IF fork_choice(pan) = OptPanic THEN RetPanic
                  ELSE RetValue(fork_choice(pan))
        /\ UNCHANGED state
        /\ UNCHANGED aux

WireVoteOf ==
    \E hash \in QueryHashes :
        /\ ret # RetPanic
        /\ call' = [op |-> "wire_vote", hash |-> hash]
        /\ ret' = RetValue(wire_vote(hash))
        /\ UNCHANGED state
        /\ UNCHANGED aux

MissingDependency ==
    \E pan \in QueryPanoramas \cup {panorama} :
        /\ ret # RetPanic
        /\ call' = [op |-> "missing_dependency", panorama |-> pan]
        /\ ret' = RetValue(missing_dependency(pan))
        /\ UNCHANGED state
        /\ UNCHANGED aux

NextQuery == AddForkVote \/ ForkChoice \/ WireVoteOf \/ MissingDependency

SpecQuery == Init /\ [][NextQuery]_vars

(***************************************************************************)
(* fork_choice called again: the same panoramas asked about in states that *)
(* hold the same votes and blocks but differ in panorama and evidence (a   *)
(* vote that comes in twice changes only those).                           *)
(***************************************************************************)
RepeatedVotes == {fork_b0, fork_c0, fork_a0, fork_b1}

Asked(pan, result) == [pan |-> pan, state |-> state, result |-> result]

AddVoteAgain ==
    \E wvote \in RepeatedVotes :
        /\ ret # RetPanic
        /\ call' = [op |-> "add_vote", wvote |-> wvote]
        /\ add_vote(wvote)
        /\ UNCHANGED aux

ForkChoiceAgain ==
    \E pan \in {wvote.panorama : wvote \in RepeatedVotes} :
        /\ ret # RetPanic
        /\ fork_choice(pan) # OptPanic
        /\ call' = [op |-> "fork_choice", pan |-> pan]
        /\ ret' = RetValue(fork_choice(pan))
        /\ asked' = IF asked = NoneOpt THEN Some(Asked(pan, fork_choice(pan)))
                     ELSE asked
        /\ UNCHANGED <<dep_spec, returned, spec_history, wrapper, synchronizer,
                       history>>
        /\ UNCHANGED state

NextAgain == AddVoteAgain \/ ForkChoiceAgain

SpecAgain == Init /\ [][NextAgain]_vars

(***************************************************************************)
(* The votes of tests::fork_choice together with add_evidence: the proof   *)
(* of BOB's two votes number 1 may come in at any time, in either order.   *)
(***************************************************************************)
AddForkEvidence ==
    \E ev \in {Equivocation(fork_b1, fork_b1v),
               Equivocation(fork_b1v, fork_b1)} :
        /\ ret # RetPanic
        /\ call' = [op |-> "add_evidence", evidence |-> ev]
        /\ evidence' = add_evidence(ev)
        /\ ret' = RetOk
        /\ UNCHANGED <<weights, votes, blocks, panorama>>
        /\ UNCHANGED aux

\* one call of fork_choice, at any time, on a panorama whose votes are
\* stored; `asked` keeps the panorama and the result, and the later states
\* are compared with it
ForkChoiceFirst ==
    \E pan \in QueryPanoramas :
        /\ ret # RetPanic
        /\ asked = NoneOpt
        /\ fork_choice(pan) # OptPanic
        /\ call' = [op |-> "fork_choice", pan |-> pan]
        /\ ret' = RetValue(fork_choice(pan))
        /\ asked' = Some([pan |-> pan, result |-> fork_choice(pan)])
        /\ UNCHANGED state
        /\ UNCHANGED <<dep_spec, returned, spec_history, wrapper, synchronizer,
                       history>>

NextStable == AddForkVote \/ AddForkEvidence \/ ForkChoiceFirst

SpecStable == Init /\ [][NextStable]_vars

(***************************************************************************)
(* tests::find_in_swimlane (state.rs 462-487): ALICE's swimlane a[0], a[1], *)
(* ..., the first vote with a block and every later one a ballot citing    *)
(* the one before.  Next to it a swimlane of BOB in which every vote       *)
(* brings a block, so that the blocks form a chain as long as the lane,    *)
(* and a second vote number 2 of ALICE.                                    *)
(***************************************************************************)
RECURSIVE lane_a(_)
lane_a(i) ==
    IF i = 0 THEN WireVote(Pan(N, N, N), ALICE, Some(<<10>>), 0)
    ELSE WireVote(Pan(C(lane_a(i - 1)), N, N), ALICE, NoneOpt, i)

RECURSIVE lane_b(_)
lane_b(i) ==
    IF i = 0 THEN WireVote(Pan(N, N, N), BOB, Some(<<20>>), 0)
    ELSE WireVote(Pan(N, C(lane_b(i - 1)), N), BOB, Some(<<20 + i>>), i)

\* with a second vote number 2 of ALICE, next to a[2]
LaneVotes ==
    {lane_a(i) : i \in 0 .. MaxLane} \cup {lane_b(i) : i \in 0 .. MaxLane}
        \cup {WireVote(Pan(C(lane_a(1)), N, N), ALICE, Some(<<11>>), 2)}

AddLaneVote ==
    \E wvote \in LaneVotes :
        /\ ret # RetPanic
        /\ call' = [op |-> "add_vote", wvote |-> wvote]
        /\ add_vote(wvote)
        /\ UNCHANGED aux

\* the latest votes of the validators the state sees as correct
LatestVotes == {panorama[idx].hash : idx \in {i \in ValidatorIndices :
                                                  is_correct(panorama[i])}}

FindInSwimlane ==
    \E hash \in LatestVotes :
        \E seq_number \in 0 .. votes[hash].seq_number :
            /\ ret # RetPanic
            /\ call' = [op |-> "find_in_swimlane", hash |-> hash,
                        seq_number |-> seq_number]
            /\ ret' = IF find_in_swimlane(hash, seq_number) = PANIC
                      THEN RetPanic
                      ELSE RetValue(find_in_swimlane(hash, seq_number))
            /\ UNCHANGED state
            /\ UNCHANGED aux

FindAncestor ==
    \E hash \in {votes[h].block : h \in LatestVotes},
       height \in 0 .. MaxLane + 1 :
        /\ ret # RetPanic
        /\ call' = [op |-> "find_ancestor", hash |-> hash, height |-> height]
        /\ ret' = IF find_ancestor(hash, height) = OptPanic THEN RetPanic
                  ELSE RetValue(find_ancestor(hash, height))
        /\ UNCHANGED state
        /\ UNCHANGED aux

NextLane == AddLaneVote \/ FindInSwimlane \/ FindAncestor

SpecLane == Init /\ [][NextLane]_vars

(***************************************************************************)
(* PotholeDepSpec (pothole.rs 57-95): the dependencies of an item, block   *)
(* indices, in two ordered sets: those still to request and those          *)
(* requested.                                                              *)
(***************************************************************************)
BlockIndices == 0 .. MaxIndex

PotholeDepSpecNew(deps) == [to_request |-> deps, requested |-> {}]

\* next_dependency that leaves the dependency in to_request
next_dependency_keeping(spec) ==
    IF spec.to_request = {} THEN [dep |-> NoneOpt, spec |-> spec]
    ELSE [dep |-> Some(Min(spec.to_request)),
          spec |-> [spec EXCEPT !.requested = @ \cup {Min(spec.to_request)}]]

\* the returned Option and the spec afterwards
next_dependency(spec) ==
    IF spec.to_request = {} THEN [dep |-> NoneOpt, spec |-> spec]
    ELSE LET next_dep == Min(spec.to_request)
         IN  [dep |-> Some(next_dep),
              spec |-> [to_request |-> spec.to_request \ {next_dep},
                        requested |-> spec.requested \cup {next_dep}]]

\* resolve_dependency that looks at the requested dependencies only
resolve_dependency_requested_only(spec, dep) ==
    [removed |-> dep \in spec.requested,
     spec |-> [spec EXCEPT !.requested = @ \ {dep}]]

\* the returned bool and the spec afterwards
resolve_dependency(spec, dep) ==
    IF dep \in spec.to_request
    THEN [removed |-> TRUE, spec |-> [spec EXCEPT !.to_request = @ \ {dep}]]
    ELSE [removed |-> dep \in spec.requested,
          spec |-> [spec EXCEPT !.requested = @ \ {dep}]]

\* all_resolved that looks at to_request only
all_resolved_none_to_request(spec) == spec.to_request = {}

all_resolved(spec) == spec.to_request = {} /\ spec.requested = {}

DepSpecNew ==
    \E deps \in SUBSET BlockIndices :
        /\ call' = [op |-> "PotholeDepSpec::new", deps |-> deps]
        /\ ret' = RetOk
        /\ dep_spec' = PotholeDepSpecNew(deps)
        /\ returned' = <<>>
        /\ spec_history' = [deps |-> deps, resolved |-> {}]
        /\ UNCHANGED <<state, asked, wrapper, synchronizer, history>>

NextDependency ==
    /\ call' = [op |-> "next_dependency"]
    /\ ret' = RetValue(next_dependency(dep_spec).dep)
    /\ dep_spec' = next_dependency(dep_spec).spec
    /\ returned' = IF next_dependency(dep_spec).dep = NoneOpt THEN returned
                   ELSE Append(returned, Unwrap(next_dependency(dep_spec).dep))
    /\ Len(returned') <= MaxIndex + 2
    /\ UNCHANGED <<state, asked, spec_history, wrapper, synchronizer, history>>

ResolveDependency ==
    \E dep \in BlockIndices :
        /\ call' = [op |-> "resolve_dependency", dep |-> dep]
        /\ ret' = RetValue(resolve_dependency(dep_spec, dep).removed)
        /\ dep_spec' = resolve_dependency(dep_spec, dep).spec
        /\ spec_history' = [spec_history EXCEPT !.resolved = @ \cup {dep}]
        /\ UNCHANGED <<state, asked, returned, wrapper, synchronizer, history>>

AllResolved ==
    /\ call' = [op |-> "all_resolved"]
    /\ ret' = RetValue(all_resolved(dep_spec))
    /\ UNCHANGED <<state, asked, dep_spec, returned, spec_history, wrapper,
                   synchronizer, history>>

NextDepSpec == DepSpecNew \/ NextDependency \/ ResolveDependency \/ AllResolved

SpecDepSpec == Init /\ [][NextDepSpec]_vars

(***************************************************************************)
(* Pothole (crate pothole): a chain of blocks, the block of index i at     *)
(* position i + 1.  A block is taken when its index is the next one of the *)
(* chain and is finalized at once; a block of a greater index misses every *)
(* index between; a block of an index the chain holds changes nothing.     *)
(***************************************************************************)
NodeIds == {"n1", "n2"}

PotholeBlocks == {"p", "q"}

FinalizedBlock(index, block) ==
    [tag |-> "FinalizedBlock", index |-> index, block |-> block]

ScheduleTimer == [tag |-> "ScheduleTimer"]

CreateNewBlock == [tag |-> "CreateNewBlock"]

\* Ok(messages) or Err(deps), and the Pothole afterwards
handle_new_block(pothole, index, block) ==
    [ok |-> index <= Len(pothole),
     deps |-> Len(pothole) .. index - 1,
     messages |-> IF index = Len(pothole)
                  THEN <<FinalizedBlock(index, block)>> ELSE <<>>,
     pothole |-> IF index = Len(pothole)
                 THEN Append(pothole, block) ELSE pothole]

get_block(pothole, index) ==
    IF index < Len(pothole) THEN Some(pothole[index + 1]) ELSE NoneOpt

\* what Pothole::handle_timer may return, any result of its type: nothing,
\* the request for a new block with the next timer, or a block of the chain
\* as finalized
TimerResults(pothole) ==
    {<<>>, <<ScheduleTimer, CreateNewBlock>>}
        \cup {<<FinalizedBlock(i - 1, pothole[i])>> : i \in DOMAIN pothole}

(***************************************************************************)
(* PotholeWrapper (pothole.rs 23-126)                                      *)
(***************************************************************************)
\* the (index, block) pairs of the FinalizedBlock results among messages
Finalized(messages) ==
    LET kept == SelectSeq(messages,
                          LAMBDA message : message.tag = "FinalizedBlock")
    IN  [i \in 1 .. Len(kept) |-> <<kept[i].index, kept[i].block>>]

\* the returned Option and the wrapper afterwards
poll(w) ==
    IF w.finalized_block_queue = <<>> THEN [value |-> NoneOpt, wrapper |-> w]
    ELSE [value |-> Some(Head(w.finalized_block_queue)),
          wrapper |-> [w EXCEPT !.finalized_block_queue = Tail(@)]]

get_dependency(w, dep) ==
    IF get_block(w.pothole, dep) = NoneOpt THEN NoneOpt
    ELSE Some([item_id |-> dep, item |-> Unwrap(get_block(w.pothole, dep))])

Accepted == [tag |-> "Accepted"]

DependenciesMissing(spec) == [tag |-> "DependenciesMissing", spec |-> spec]

\* handle_new_item that takes an item missing one dependency only
handle_new_item_missing_one(w, item_id, item) ==
    LET r == handle_new_block(w.pothole, item_id, item)
    IN  IF r.ok \/ Cardinality(r.deps) = 1
        THEN [result |-> Accepted,
              wrapper |-> [pothole |-> r.pothole,
                           finalized_block_queue |->
                               w.finalized_block_queue \o Finalized(r.messages)]]
        ELSE [result |-> DependenciesMissing(PotholeDepSpecNew(r.deps)),
              wrapper |-> [w EXCEPT !.pothole = r.pothole]]

\* the HandleNewItemResult and the wrapper afterwards
handle_new_item(w, item_id, item) ==
    LET r == handle_new_block(w.pothole, item_id, item)
    IN  IF r.ok
        THEN [result |-> Accepted,
              wrapper |-> [pothole |-> r.pothole,
                           finalized_block_queue |->
                               w.finalized_block_queue \o Finalized(r.messages)]]
        ELSE [result |-> DependenciesMissing(PotholeDepSpecNew(r.deps)),
              wrapper |-> [w EXCEPT !.pothole = r.pothole]]

\* what a call handle_new_item(item_id, item) on w adds to the history
Observe(h, w, item_id, item) ==
    LET r == handle_new_block(w.pothole, item_id, item)
        result == handle_new_item(w, item_id, item).result
    IN  [produced |-> h.produced \o Finalized(r.messages),
         delivered |-> h.delivered,
         accepted |-> IF /\ result = Accepted
                         /\ \A k \in DOMAIN h.accepted : h.accepted[k] # item_id
                      THEN Append(h.accepted, item_id) ELSE h.accepted,
         named |-> IF result = Accepted THEN h.named
                   ELSE [h.named EXCEPT
                            ![item_id] = @ \cup result.spec.to_request
                                           \cup result.spec.requested]]

(***************************************************************************)
(* Synchronizer (crate synchronizer): the queue of the items that wait for *)
(* dependencies, keyed by item id, each with its sender and its spec.      *)
(* A step works on [wrapper, queue, out, history], `out` the messages to   *)
(* send.                                                                   *)
(***************************************************************************)
NewItem(item_id, item) == [tag |-> "NewItem", item_id |-> item_id, item |-> item]

RequestDependency(item_id) == [tag |-> "RequestDependency", item_id |-> item_id]

DependencyResolved(item_id, item) ==
    [tag |-> "DependencyResolved", item_id |-> item_id, item |-> item]

SynchronizerMessages ==
    {NewItem(i, b) : i \in BlockIndices, b \in PotholeBlocks}
        \cup {DependencyResolved(i, b) : i \in BlockIndices, b \in PotholeBlocks}
        \cup {RequestDependency(i) : i \in BlockIndices}

MapRemove(map, key) == [k \in DOMAIN map \ {key} |-> map[k]]

\* a message and the peer it is sent to
To(peer, message) == [peer |-> peer, message |-> message]

\* queue an item with its spec after asking the sender for one dependency
Enqueue(st, sender, item_id, item, spec) ==
    LET nd == next_dependency(spec)
    IN  [st EXCEPT
            !.queue = MapInsert(MapRemove(@, item_id), item_id,
                                [item |-> item, sender |-> sender,
                                 spec |-> nd.spec]),
            !.out = IF nd.dep = NoneOpt THEN @
                    ELSE Append(@, To(sender, RequestDependency(Unwrap(nd.dep))))]

\* hand an item to the protocol state; queue it when dependencies are missing
SubmitItem(st, sender, item_id, item) ==
    LET r == handle_new_item(st.wrapper, item_id, item)
        seen == [st EXCEPT !.wrapper = r.wrapper,
                           !.history = Observe(@, st.wrapper, item_id, item)]
    IN  IF r.result = Accepted
        THEN [accepted |-> TRUE,
              st |-> [seen EXCEPT !.queue = MapRemove(@, item_id)]]
        ELSE [accepted |-> FALSE,
              st |-> Enqueue(seen, sender, item_id, item, r.result.spec)]

\* the queued items whose spec names id
Dependents(queue, id) ==
    {q \in DOMAIN queue : id \in queue[q].spec.to_request
                          \/ id \in queue[q].spec.requested}

\* tell the queued item q that id was accepted
Notify(st, q, id) ==
    LET entry == st.queue[q]
        spec == resolve_dependency(entry.spec, id).spec
    IN  IF all_resolved(spec)
        THEN SubmitItem([st EXCEPT !.queue = MapRemove(@, q)],
                        entry.sender, q, entry.item)
        ELSE IF spec.requested = {}
        THEN [accepted |-> FALSE,
              st |-> Enqueue(st, entry.sender, q, entry.item, spec)]
        ELSE [accepted |-> FALSE,
              st |-> [st EXCEPT !.queue[q].spec = spec]]

\* dependent fan-out for the accepted ids of `work`, in order
RECURSIVE FanOut(_, _)
FanOut(st, work) ==
    IF work = <<>> THEN st
    ELSE IF Dependents(st.queue, Head(work)) = {}
    THEN FanOut(st, Tail(work))
    ELSE LET q == Min(Dependents(st.queue, Head(work)))
             step == Notify(st, q, Head(work))
         IN  FanOut(step.st, IF step.accepted THEN Append(work, q) ELSE work)

synchronizer_handle_message(st, sender, msg) ==
    IF msg.tag = "RequestDependency"
    THEN IF get_dependency(st.wrapper, msg.item_id) = NoneOpt THEN st
         ELSE [st EXCEPT !.out =
                  Append(@, To(sender,
                      DependencyResolved(msg.item_id,
                          Unwrap(get_dependency(st.wrapper, msg.item_id)).item)))]
    ELSE LET step == SubmitItem(st, sender, msg.item_id, msg.item)
         IN  IF step.accepted THEN FanOut(step.st, <<msg.item_id>>) ELSE step.st

(***************************************************************************)
(* PotholeWithSynchronizer (pothole.rs 139-193)                            *)
(***************************************************************************)
CreatedNewMessage(msg) == [tag |-> "CreatedNewMessage", msg |-> msg]

into_consenus_result(pothole_result) ==
    IF pothole_result.tag = "ScheduleTimer" THEN Some(ScheduleTimer)
    ELSE IF pothole_result.tag = "CreateNewBlock" THEN Some(CreateNewBlock)
    ELSE NoneOpt

\* results.into_iter().filter_map(into_consenus_result).collect()
FilterMap(results) ==
    LET kept == SelectSeq(results, LAMBDA pothole_result :
                              into_consenus_result(pothole_result) # NoneOpt)
    IN  [i \in 1 .. Len(kept) |-> Unwrap(into_consenus_result(kept[i]))]

\* the state after the synchronizer has handled msg; `out` is what it returns
handle_message(sender, msg) ==
    synchronizer_handle_message(
        [wrapper |-> wrapper, queue |-> synchronizer, out |-> <<>>,
         history |-> history], sender, msg)

HandleMessage ==
    \E sender \in NodeIds, msg \in SynchronizerMessages :
        /\ call' = [op |-> "handle_message", sender |-> sender, msg |-> msg]
        /\ ret' = RetValue([i \in DOMAIN handle_message(sender, msg).out |->
                     CreatedNewMessage(handle_message(sender, msg).out[i])])
        /\ wrapper' = handle_message(sender, msg).wrapper
        /\ synchronizer' = handle_message(sender, msg).queue
        /\ history' = handle_message(sender, msg).history
        /\ UNCHANGED <<state, asked, dep_spec, returned, spec_history>>

\* the wrapper keeps nothing of what the Pothole returns for a timer
HandleTimer ==
    \E results \in TimerResults(wrapper.pothole) :
        /\ Len(history.produced \o Finalized(results)) <= MaxIndex + 2
        /\ call' = [op |-> "handle_timer", results |-> results]
        /\ ret' = RetValue(FilterMap(results))
        /\ history' = [history EXCEPT !.produced = @ \o Finalized(results)]
        /\ UNCHANGED <<state, asked, dep_spec, returned, spec_history, wrapper,
                       synchronizer>>

Poll ==
    /\ call' = [op |-> "poll"]
    /\ ret' = RetValue(poll(wrapper).value)
    /\ wrapper' = poll(wrapper).wrapper
    /\ history' = IF poll(wrapper).value = NoneOpt THEN history
                  ELSE [history EXCEPT
                           !.delivered = Append(@, Unwrap(poll(wrapper).value))]
    /\ UNCHANGED <<state, asked, dep_spec, returned, spec_history, synchronizer>>

NextPothole == HandleMessage \/ HandleTimer \/ Poll

SpecPothole == Init /\ [][NextPothole]_vars

(***************************************************************************)
(* Vocabulary of the properties.                                           *)
(***************************************************************************)
\* the last operation was an add_vote that returned Ok
AddVoteOk == call.op = "add_vote" /\ ret = RetOk

\* the hashes of the stored votes of validator s
StoredBy(s) == {h \in DOMAIN votes : votes[h].sender = s}

\* two different stored votes of s carry the same sequence number
Equivocated(s) ==
    \E h0, h1 \in StoredBy(s) :
        h0 # h1 /\ votes[h0].seq_number = votes[h1].seq_number

\* the stored votes of s with the sequence number of wvote, other than wvote
Rivals(wvote) ==
    {h \in StoredBy(wvote.sender) :
        votes[h].seq_number = wvote.seq_number /\ h # Hash(wvote)}

\* C1: when two distinct votes of one sender with the same sequence number
\* have been accepted, there is evidence against the sender, stored under
\* the sender's index, and the panorama sees the sender as Faulty; a vote
\* accepted from a sender against whom evidence is stored adds no evidence.
C1_EquivocationDetected ==
    [][/\ \A s \in ValidatorIndices :
            Equivocated(s)' =>
                /\ s \in DOMAIN evidence'
                /\ perpetrator(evidence'[s]) = s
                /\ panorama'[s] = ObsFaulty
       /\ (AddVoteOk' /\ call'.wvote.sender \in DOMAIN evidence)
            => evidence' = evidence]_vars

\* C1 witness: a third vote of ALICE with sequence number 1 was accepted
C1_Witness ==
    /\ AddVoteOk
    /\ call.wvote.sender = ALICE
    /\ Cardinality(Rivals(call.wvote)) = 2
    /\ ALICE \in DOMAIN evidence
    /\ panorama[ALICE] = ObsFaulty

\* C2: an add_vote that returns an error leaves weights, votes, blocks,
\* evidence and panorama as they were, and the error carries the wire vote
\* that was passed in, with cause Panorama or SequenceNumber.
C2_ErrorLeavesState ==
    [][(call'.op = "add_vote" /\ ret'.tag = "Err")
        => /\ state' = state
           /\ ret'.wvote = call'.wvote
           /\ ret'.cause \in {"Panorama", "SequenceNumber"}]_vars

\* C2 witness: the test's vote with the wrong sequence number is rejected in
\* the state the test builds
C2_Witness ==
    /\ call = [op |-> "add_vote", wvote |-> c_seq]
    /\ ret = with_error(c_seq, "SequenceNumber")
    /\ panorama = Pan(C(a1), C(b1), C(c0))

\* distinct wire votes of the model have distinct hashes
HashCollisionFree ==
    /\ \A v, w \in WireVotes \cup ForkVotes : Hash(v) = Hash(w) => v = w
    /\ \A v \in ForkVotes : Hash(v) # 42

\* every vote cited by the panorama of wvote is stored
CitedStored(wvote) ==
    \A idx \in ValidatorIndices :
        is_correct(wvote.panorama[idx]) => has_vote(wvote.panorama[idx].hash)

\* obs_r is at most obs_l: obs_l is Faulty, obs_r is None, or both cite votes
\* and the vote of obs_r is the vote of obs_l or one of its predecessors
ObsLeq(obs_r, obs_l) ==
    \/ obs_l = ObsFaulty
    \/ obs_r = ObsNone
    \/ /\ is_correct(obs_l)
       /\ is_correct(obs_r)
       /\ \E i \in DOMAIN swimlane(obs_l.hash) :
              swimlane(obs_l.hash)[i] = obs_r.hash

PanLeq(pan_r, pan_l) ==
    \A idx \in ValidatorIndices : ObsLeq(pan_r[idx], pan_l[idx])

\* the panorama of wvote cites a vote under the wrong index, cites a vote
\* whose own panorama it does not cover, or has Faulty without evidence
BadPanorama(wvote) ==
    \E idx \in ValidatorIndices :
        LET obs == wvote.panorama[idx]
        IN  \/ /\ is_correct(obs)
               /\ \/ votes[obs.hash].sender # idx
                  \/ ~PanLeq(votes[obs.hash].panorama, wvote.panorama)
            \/ obs = ObsFaulty /\ ~has_evidence(idx)

\* the panorama of wvote passes every panorama rule
ValidPanorama(wvote) ==
    /\ CitedStored(wvote)
    /\ ~BadPanorama(wvote)
    /\ ~(wvote.values = NoneOpt /\ is_empty(wvote.panorama))

\* the sequence number the sender's own observation asks for
ExpectedSeq(wvote) ==
    LET own == wvote.panorama[wvote.sender]
    IN  IF own = ObsNone THEN 0 ELSE 1 + votes[own.hash].seq_number

\* an equivocation proper: same sender, same sequence number, two hashes
ProperEquivocation(ev) ==
    /\ ev.vote0.sender = ev.vote1.sender
    /\ ev.vote0.seq_number = ev.vote1.seq_number
    /\ Hash(ev.vote0) # Hash(ev.vote1)

\* C3: an add_vote of a wire vote whose cited votes are all stored returns
\* Err(Panorama) when its panorama cites a vote under another index than its
\* sender's, cites a vote whose panorama it does not cover, or holds Faulty
\* at an index without stored evidence.
C3_BadPanoramaRejected ==
    [][(/\ call'.op = "add_vote"
        /\ CitedStored(call'.wvote)
        /\ BadPanorama(call'.wvote))
        => ret' = with_error(call'.wvote, "Panorama")]_vars

\* C4: for an add_vote of a wire vote with a valid panorama: with the
\* sender's own observation Faulty it returns Err(Panorama); otherwise it is
\* accepted when the sequence number is 0 after None and one more than the
\* cited vote's after Correct, and returns Err(SequenceNumber) for any other
\* sequence number.
C4_SequenceNumberRule ==
    [][(call'.op = "add_vote" /\ ValidPanorama(call'.wvote))
        => LET wv == call'.wvote
           IN  IF wv.panorama[wv.sender] = ObsFaulty
               THEN ret' = with_error(wv, "Panorama")
               ELSE IF wv.seq_number = ExpectedSeq(wv)
               THEN ret' = RetOk
               ELSE ret' = with_error(wv, "SequenceNumber")]_vars

\* C4 witness: a copy of a1 with sequence number 2 is rejected after a0, b0,
\* c0 and b1 were stored
C4_Witness ==
    /\ call.op = "add_vote"
    /\ call.wvote = WireVote(a1.panorama, ALICE, NoneOpt, 2)
    /\ ret = with_error(call.wvote, "SequenceNumber")
    /\ Hash(b1) \in DOMAIN votes

\* C5: every stored vote has None as its sender's own observation exactly
\* when its sequence number is 0, and otherwise cites a stored vote of the
\* same sender whose sequence number is one less.
C5_StoredSeqNumbers ==
    \A h \in DOMAIN votes :
        LET v == votes[h]
            own == v.panorama[v.sender]
        IN  /\ own = ObsNone <=> v.seq_number = 0
            /\ own # ObsNone =>
                   /\ is_correct(own)
                   /\ own.hash \in DOMAIN votes
                   /\ votes[own.hash].sender = v.sender
                   /\ votes[own.hash].seq_number + 1 = v.seq_number

\* C5 witness: votes of BOB with sequence numbers 0, 1 and 2 are stored
C5_Witness ==
    /\ {Hash(b0), Hash(b1), Hash(b2)} \subseteq DOMAIN votes
    /\ votes[Hash(b2)].seq_number = 2
    /\ votes[Hash(b2)].panorama[BOB] = C(b1)

\* C6: every evidence that an add_vote records is an equivocation of two
\* votes with the same sender and sequence number and different hashes.
C6_EvidenceIsEquivocation ==
    [][call'.op = "add_vote"
        => \A s \in DOMAIN evidence' :
               (s \notin DOMAIN evidence \/ evidence'[s] # evidence[s])
                   => ProperEquivocation(evidence'[s])]_vars

\* C7: an add_evidence for a perpetrator against whom evidence is stored
\* leaves the evidence store and the rest of the state unchanged.
C7_AddEvidenceIdempotent ==
    [][(/\ call'.op = "add_evidence"
        /\ perpetrator(call'.evidence) \in DOMAIN evidence)
        => state' = state]_vars

\* C8: a stored vote stays stored with the same record, and a stored block
\* stays stored with the same record, in every step.
C8_VotesAndBlocksAppendOnly ==
    [][/\ \A h \in DOMAIN votes :
              h \in DOMAIN votes' /\ votes'[h] = votes[h]
       /\ \A h \in DOMAIN blocks :
              h \in DOMAIN blocks' /\ blocks'[h] = blocks[h]]_vars

\* C8 witness: c0, which proposes no block, was accepted a second time while
\* votes of all three validators are stored
C8_Witness ==
    /\ AddVoteOk
    /\ call.wvote = c0
    /\ CAROL \in DOMAIN evidence
    /\ evidence[CAROL] = Equivocation(c0, c0)
    /\ {Hash(a0), Hash(b0), Hash(c0)} \subseteq DOMAIN votes

\* C9: an accepted vote whose own observation equals the state's observation
\* of its sender, not Faulty, makes that observation Correct(its hash); and
\* while no validator has two stored votes with one sequence number and no
\* evidence came in, an accepted vote leaves the evidence store empty and
\* becomes the state's observation of its sender.
C9_PanoramaAdvances ==
    [][AddVoteOk' =>
        LET wv == call'.wvote
        IN  /\ (wv.panorama[wv.sender] = panorama[wv.sender]
                    /\ panorama[wv.sender] # ObsFaulty)
                => panorama'[wv.sender] = Correct(Hash(wv))
            /\ (evidence = EmptyMap
                    /\ \A s \in ValidatorIndices : ~Equivocated(s)')
                => /\ evidence' = EmptyMap
                   /\ panorama'[wv.sender] = Correct(Hash(wv))]_vars

\* C10: an observation of the state's panorama that is Faulty is Faulty
\* after every step.
C10_FaultyAbsorbing ==
    [][\A s \in ValidatorIndices :
           panorama[s] = ObsFaulty => panorama'[s] = ObsFaulty]_vars

\* C10 witness: BOB, seen as Faulty since b0 came in twice, had the vote b1
\* accepted
C10_Witness ==
    /\ AddVoteOk
    /\ call.wvote = b1
    /\ BOB \in DOMAIN evidence
    /\ evidence[BOB] = Equivocation(b0, b0)
    /\ Hash(b1) \in DOMAIN votes
    /\ panorama[BOB] = ObsFaulty

\* every vote cited by the panorama is stored
PanStored(pan) ==
    \A idx \in ValidatorIndices : is_correct(pan[idx]) => has_vote(pan[idx].hash)

\* a block and its ancestors, by the parent links
RECURSIVE Ancestry(_)
Ancestry(bhash) ==
    {bhash} \cup (IF blocks[bhash].parent = NoneOpt THEN {}
                  ELSE Ancestry(Unwrap(blocks[bhash].parent)))

\* the validators whose latest vote in pan is for bhash or a descendant of it
Voters(pan, bhash) ==
    {idx \in ValidatorIndices :
        /\ is_correct(pan[idx])
        /\ bhash \in Ancestry(votes[pan[idx].hash].block)}

\* the summed weight of the voters of bhash
Score(pan, bhash) ==
    SumOver([idx \in ValidatorIndices |-> weights[idx + 1]], Voters(pan, bhash))

\* the children of a block that have votes; of NoneOpt, the blocks at height 0
VotedChildren(pan, selected) ==
    {b \in DOMAIN blocks :
        /\ IF selected = NoneOpt THEN blocks[b].height = 0
           ELSE blocks[b].parent = selected
        /\ Score(pan, b) > 0}

\* the blocks GHOST can end in from `selected`, by the highest score among
\* the voted children at every level
RECURSIVE Ghost(_, _)
Ghost(pan, selected) ==
    LET voted == VotedChildren(pan, selected)
        best == {b \in voted : \A c \in voted : Score(pan, c) <= Score(pan, b)}
    IN  IF voted = {} THEN {selected}
        ELSE UNION {Ghost(pan, Some(b)) : b \in best}

\* C11: fork_choice(pan), for a panorama whose cited votes are stored,
\* returns the block GHOST selects: from the blocks at height 0, the child
\* with the highest score at every level, the score of a block being the
\* weight of the validators whose latest vote in pan is for the block or a
\* descendant, until no child has a vote.
C11_ForkChoiceIsGhost ==
    [][(call'.op = "fork_choice" /\ PanStored(call'.pan))
        => \E g \in Ghost(call'.pan, NoneOpt) : ret' = RetValue(g)]_vars

\* C11 witness: the fork choice of tests::fork_choice: at height 1 a0 wins
\* against c0, at height 2 b2 wins against a1
C11_Witness ==
    /\ call.op = "fork_choice"
    /\ call.pan = Pan(C(fork_a1), C(fork_b2), C(fork_c1))
    /\ panorama = call.pan
    /\ ret = RetValue(Some(Hash(fork_b2)))

\* the choice c1 below the third child of b0 takes two rounds of the loop
TwoRoundsForkChoice ==
    /\ call.op = "fork_choice"
    /\ call.pan = Pan(C(fork_a0), C(fork_b1v), C(fork_c1))
    /\ ret = RetValue(Some(Hash(fork_c1)))

\* C12: fork_choice(pan), for a panorama whose cited votes are stored,
\* returns None exactly when pan has no Correct observation; and an
\* add_vote of a wire vote without values that passes validation returns Ok,
\* so Vote::new finds a fork choice.
C12_ForkChoiceNoneIffEmpty ==
    [][/\ (call'.op = "fork_choice" /\ PanStored(call'.pan))
            => /\ ret'.tag = "Value"
               /\ ret'.value = NoneOpt <=> is_empty(call'.pan)
       /\ (/\ call'.op = "add_vote"
           /\ call'.wvote.values = NoneOpt
           /\ validate_vote(call'.wvote) = "Ok")
            => ret' = RetOk]_vars

\* C12 witness: with votes stored, a panorama of Faulty and None has no
\* fork choice
C12_Witness ==
    /\ call.op = "fork_choice"
    /\ call.pan = Pan(Fa, Fa, N)
    /\ ret = RetValue(NoneOpt)
    /\ Hash(fork_b1) \in DOMAIN votes

C14_WireVoteRoundTrip ==
    /\ AddVoteOk => wire_vote(Hash(call.wvote)) = Some(call.wvote)
    /\ call.op = "wire_vote"
        => ret = IF \E wvote \in ForkVotes :
                        /\ Hash(wvote) = call.hash
                        /\ Hash(wvote) \in DOMAIN votes
                 THEN RetValue(Some(CHOOSE wvote \in ForkVotes :
                                        Hash(wvote) = call.hash))
                 ELSE RetValue(NoneOpt)

\* C14 witness: wire_vote returned a1, a vote with values, after the ballot
\* b1 and a1 were added
C14_Witness ==
    /\ call = [op |-> "wire_vote", hash |-> Hash(fork_a1)]
    /\ ret = RetValue(Some(fork_a1))
    /\ wire_vote(Hash(fork_b1)) = Some(fork_b1)

\* the indices at which the panorama refers to evidence or a vote that is
\* not stored
Unsatisfied(pan) ==
    {idx \in ValidatorIndices :
        \/ pan[idx] = ObsFaulty /\ idx \notin DOMAIN evidence
        \/ is_correct(pan[idx]) /\ pan[idx].hash \notin DOMAIN votes}

\* C15: a missing_dependency call leaves the state as it was; it returns
\* None when every Faulty entry has stored evidence and every Correct entry
\* a stored vote, and otherwise the reference at the lowest unsatisfied
\* index: Evidence(i) for Faulty, Vote(h) for Correct(h).
C15_FirstMissingDependency ==
    [][call'.op = "missing_dependency"
        => LET pan == call'.panorama
               unsat == Unsatisfied(pan)
           IN  /\ state' = state
               /\ unsat = {} => ret' = RetValue(NoneOpt)
               /\ \A i \in unsat :
                      (\A j \in unsat : i <= j)
                          => ret' = RetValue(Some(
                                 IF pan[i] = ObsFaulty
                                 THEN DependencyEvidence(i)
                                 ELSE DependencyVote(pan[i].hash)))]_vars

\* C15 witness: with evidence against ALICE stored and b2 and c1 not
\* stored, the panorama (F, b2, c1) misses the vote b2
C15_Witness ==
    /\ call = [op |-> "missing_dependency",
               panorama |-> Pan(Fa, C(fork_b2), C(fork_c1))]
    /\ ret = RetValue(Some(DependencyVote(Hash(fork_b2))))
    /\ ALICE \in DOMAIN evidence
    /\ Hash(fork_c1) \notin DOMAIN votes

\* C16: in every state a block is stored under exactly the hashes of the
\* stored votes that carried values; a block has height 0 exactly when it has
\* no parent, and otherwise its parent is a stored block and its height is
\* the parent's plus one; and the block of an accepted vote has the fork
\* choice of the vote's panorama, taken when the vote came in, as its parent.
C16_BlockInvariant ==
    /\ [](/\ DOMAIN blocks =
                {Hash(wvote) : wvote \in {w \in ForkVotes :
                                             /\ Hash(w) \in DOMAIN votes
                                             /\ w.values # NoneOpt}}
          /\ \A h \in DOMAIN blocks :
                 LET b == blocks[h]
                 IN  /\ b.height = 0 <=> b.parent = NoneOpt
                     /\ b.parent # NoneOpt
                          => /\ Unwrap(b.parent) \in DOMAIN blocks
                             /\ b.height = blocks[Unwrap(b.parent)].height + 1)
    /\ [][(AddVoteOk' /\ call'.wvote.values # NoneOpt)
            => blocks'[Hash(call'.wvote)].parent
                   = fork_choice(call'.wvote.panorama)]_vars

\* C16 witness: as in tests::fork_choice, the block of a1 was built on a0
\* and has height 2
C16_Witness ==
    /\ AddVoteOk
    /\ call.wvote = fork_a1
    /\ blocks[Hash(fork_a1)].parent = Some(Hash(fork_a0))
    /\ blocks[Hash(fork_a1)].height = 2
    /\ Hash(fork_b1) \notin DOMAIN blocks

\* C17: an add_vote of a wire vote without values whose panorama has no
\* Correct observation returns Err(Panorama), and an add_vote of a wire vote
\* with values, an all-None panorama and sequence number 0 returns Ok, in
\* every state.
C17_EmptyPanorama ==
    [][call'.op = "add_vote"
        => LET wv == call'.wvote
           IN  /\ (/\ wv.values = NoneOpt
                   /\ \A idx \in ValidatorIndices : ~is_correct(wv.panorama[idx]))
                    => ret' = with_error(wv, "Panorama")
               /\ (/\ wv.values # NoneOpt
                   /\ \A idx \in ValidatorIndices : wv.panorama[idx] = ObsNone
                   /\ wv.seq_number = 0)
                    => ret' = RetOk]_vars

\* C17 witness: with evidence against ALICE stored, a vote without values
\* that sees only ALICE's fault is rejected, after b0 with values and
\* an all-None panorama was accepted
C17_Witness ==
    /\ call = [op |-> "add_vote", wvote |-> b_only_faulty]
    /\ ret = with_error(b_only_faulty, "Panorama")
    /\ ALICE \in DOMAIN evidence
    /\ Hash(b0) \in DOMAIN votes

\* C20: next_dependency on an empty to_request returns None and leaves both
\* sets as they were; otherwise it returns the smallest index of to_request,
\* removes it there and inserts it into requested; and no dependency is
\* returned twice by one spec.
C20_NextDependency ==
    /\ [][call'.op = "next_dependency"
            => IF dep_spec.to_request = {}
               THEN ret' = RetValue(NoneOpt) /\ dep_spec' = dep_spec
               ELSE \E dep \in dep_spec.to_request :
                        /\ \A d \in dep_spec.to_request : dep <= d
                        /\ ret' = RetValue(Some(dep))
                        /\ dep_spec'.to_request = dep_spec.to_request \ {dep}
                        /\ dep_spec'.requested = dep_spec.requested \cup {dep}]_vars
    /\ [](\A i, j \in DOMAIN returned : returned[i] = returned[j] => i = j)

\* C20 witness: a spec made of three dependencies has returned 0 and, after
\* 1 was resolved, 2, and returns None
C20_Witness ==
    /\ call = [op |-> "next_dependency"]
    /\ ret = RetValue(NoneOpt)
    /\ returned = <<0, 2>>
    /\ dep_spec = [to_request |-> {}, requested |-> {0, 2}]

\* the item ids accepted before the k-th acceptance
AcceptedBefore(k) == {history.accepted[j] : j \in 1 .. k - 1}

\* C18: an item for which handle_new_item reported DependenciesMissing(spec)
\* is accepted only after every dependency named in that spec was accepted.
C18_TopologicalOrder ==
    \A k \in DOMAIN history.accepted :
        history.named[history.accepted[k]] \subseteq AcceptedBefore(k)

\* C18 witness: item 2 came first and was reported to miss 0 and 1, item 1
\* was reported to miss 0, and the three were accepted in the order 0, 1, 2
C18_Witness ==
    /\ history.accepted = <<0, 1, 2>>
    /\ history.named[2] = {0, 1}
    /\ history.named[1] = {0}
    /\ Len(wrapper.pothole) = 3
    /\ synchronizer = << >>

\* every FinalizedBlock the Pothole produced was returned by poll or waits in
\* the queue, once, in the order produced
DeliveredInOrder ==
    history.produced = history.delivered \o wrapper.finalized_block_queue

\* poll returns the front of the queue and removes it, None on an empty queue
PollPopsFront ==
    [][call'.op = "poll"
         => IF wrapper.finalized_block_queue = <<>>
            THEN ret' = RetValue(NoneOpt) /\ wrapper' = wrapper
            ELSE /\ ret' = RetValue(Some(Head(wrapper.finalized_block_queue)))
                 /\ wrapper'.finalized_block_queue
                        = Tail(wrapper.finalized_block_queue)]_vars

\* a handle_new_item that ends in DependenciesMissing leaves the queue alone
MissingLeavesQueue ==
    \A item_id \in BlockIndices, item \in PotholeBlocks :
        handle_new_item(wrapper, item_id, item).result # Accepted
            => handle_new_item(wrapper, item_id, item).wrapper.finalized_block_queue
                   = wrapper.finalized_block_queue

QueuedInOrder ==
    \E lost \in SUBSET DOMAIN history.produced :
        history.delivered \o wrapper.finalized_block_queue
            = [i \in 1 .. Len(history.produced) - Cardinality(lost) |->
                  history.produced[
                      CHOOSE k \in DOMAIN history.produced \ lost :
                          Cardinality({j \in DOMAIN history.produced \ lost :
                                           j < k}) = i - 1]]

\* C21: whatever next_dependency and resolve_dependency calls were made on a
\* spec made of the set D, all_resolved is true exactly when every element of
\* D was passed to resolve_dependency, requested before or not; for an empty D
\* it is true from the start.
C21_AllResolved ==
    /\ [](/\ dep_spec.to_request \cup dep_spec.requested
                 = spec_history.deps \ spec_history.resolved
          /\ all_resolved(dep_spec)
                 = (spec_history.deps \subseteq spec_history.resolved))
    /\ [][call'.op = "all_resolved"
            => ret' = RetValue(spec_history.deps \subseteq spec_history.resolved)]_vars
    /\ [][call'.op = "PotholeDepSpec::new" /\ call'.deps = {}
            => all_resolved(dep_spec')]_vars

\* C21 witness: of the dependencies 0, 1, 2 only 0 was requested, the three
\* were resolved, and all_resolved answers true
C21_Witness ==
    /\ call = [op |-> "all_resolved"]
    /\ ret = RetValue(TRUE)
    /\ spec_history = [deps |-> {0, 1, 2}, resolved |-> {0, 1, 2}]
    /\ returned = <<0>>

\* C22: resolve_dependency(d) returns true exactly when d is in to_request or
\* in requested; then d is in neither set afterwards and the other elements
\* of both sets stay; otherwise it returns false and changes nothing.
C22_ResolveDependency ==
    [][call'.op = "resolve_dependency"
         => /\ ret' = RetValue(call'.dep \in dep_spec.to_request
                               \/ call'.dep \in dep_spec.requested)
            /\ dep_spec'.to_request = dep_spec.to_request \ {call'.dep}
            /\ dep_spec'.requested = dep_spec.requested \ {call'.dep}]_vars

\* C22 witness: 1 is resolved a second time, the answer is false, and the
\* requested 0 and the pending 2 are still there
C22_Witness ==
    /\ call = [op |-> "resolve_dependency", dep |-> 1]
    /\ ret = RetValue(FALSE)
    /\ 1 \in spec_history.resolved
    /\ spec_history.deps = {0, 1, 2}
    /\ dep_spec = [to_request |-> {2}, requested |-> {0}]

\* C23: an add_vote of a wire vote whose panorama has no missing dependency
\* returns Ok or Err(VoteError): the assertion vote.seq_number > seq_number of
\* find_in_swimlane holds wherever validation or update_panorama reaches it.
C23_SwimlaneAssertionHolds ==
    [][(/\ call'.op = "add_vote"
        /\ missing_dependency(call'.wvote.panorama) = NoneOpt)
        => ret' # RetPanic]_vars

\* the vote reached from hash by following previous() links `steps` times
RECURSIVE Back(_, _)
Back(hash, steps) ==
    IF steps = 0 THEN hash
    ELSE IF hash \notin DOMAIN votes THEN PANIC
    ELSE IF previous(votes[hash]) = NoneOpt THEN PANIC
    ELSE Back(Unwrap(previous(votes[hash])), steps - 1)

\* C24: a stored vote with sequence number n > 0 has trailing_zeros(n) + 1
\* entries in skip_idx, and entry i is the stored vote of the same sender,
\* in its swimlane, with sequence number n - 2^i; a stored vote with
\* sequence number 0 has an empty skip_idx.
C24_SkipListCorrect ==
    \A h \in DOMAIN votes :
        LET v == votes[h]
        IN  IF v.seq_number = 0 THEN v.skip_idx = <<>>
            ELSE /\ Len(v.skip_idx) = trailing_zeros(v.seq_number) + 1
                 /\ \A i \in 0 .. Len(v.skip_idx) - 1 :
                        /\ v.skip_idx[i + 1] \in DOMAIN votes
                        /\ votes[v.skip_idx[i + 1]].sender = v.sender
                        /\ votes[v.skip_idx[i + 1]].seq_number
                               = v.seq_number - 2 ^ i
                        /\ v.skip_idx[i + 1] = Back(h, 2 ^ i)

\* C24 witness: ALICE's vote number 4 is stored with the three entries
\* a[3], a[2], a[0], and her vote number 3 with the entry a[2] only
C24_Witness ==
    /\ Hash(lane_a(4)) \in DOMAIN votes
    /\ votes[Hash(lane_a(4))].skip_idx
           = <<Hash(lane_a(3)), Hash(lane_a(2)), Hash(lane_a(0))>>
    /\ votes[Hash(lane_a(3))].skip_idx = <<Hash(lane_a(2))>>
    /\ votes[Hash(lane_a(0))].skip_idx = <<>>

\* C25: for a stored vote h and 0 <= k <= vote(h).seq_number,
\* find_in_swimlane(h, k) is the vote reached from h by following previous()
\* links vote(h).seq_number - k times, the vote of h's swimlane with
\* sequence number k.
C25_FindInSwimlane ==
    \A h \in DOMAIN votes :
        \A k \in 0 .. votes[h].seq_number :
            /\ find_in_swimlane(h, k) = Back(h, votes[h].seq_number - k)
            /\ find_in_swimlane(h, k) \in DOMAIN votes
            /\ votes[find_in_swimlane(h, k)].seq_number = k
            /\ votes[find_in_swimlane(h, k)].sender = votes[h].sender
            /\ \A j \in DOMAIN swimlane(h) :
                   votes[swimlane(h)[j]].seq_number = k
                       => swimlane(h)[j] = find_in_swimlane(h, k)

\* C25 witness: from ALICE's vote number 3, whose skip list has one entry,
\* the lookup finds a[0], three links back, and from her vote number 4 it
\* finds a[1]
C25_Witness ==
    /\ Hash(lane_a(4)) \in DOMAIN votes
    /\ find_in_swimlane(Hash(lane_a(3)), 0) = Hash(lane_a(0))
    /\ find_in_swimlane(Hash(lane_a(4)), 1) = Hash(lane_a(1))
    /\ swimlane(Hash(lane_a(2))) = <<Hash(lane_a(2)), Hash(lane_a(1)), Hash(lane_a(0))>>

\* the block reached from hash by following parent links `steps` times
RECURSIVE Up(_, _)
Up(hash, steps) ==
    IF steps = 0 THEN Some(hash)
    ELSE IF hash \notin DOMAIN blocks THEN OptPanic
    ELSE IF blocks[hash].parent = NoneOpt THEN OptPanic
    ELSE Up(Unwrap(blocks[hash].parent), steps - 1)

\* C26: for a stored block b and a height k, find_ancestor(b, k) is None when
\* b's height is below k, b when it is k, and otherwise the block reached
\* from b by following parent links height - k times, whose height is k.
C26_FindAncestor ==
    \A b \in DOMAIN blocks :
        \A k \in 0 .. MaxLane + 1 :
            IF blocks[b].height < k THEN find_ancestor(b, k) = NoneOpt
            ELSE IF blocks[b].height = k THEN find_ancestor(b, k) = Some(b)
            ELSE /\ find_ancestor(b, k) = Up(b, blocks[b].height - k)
                 /\ find_ancestor(b, k) \notin {NoneOpt, OptPanic}
                 /\ blocks[Unwrap(find_ancestor(b, k))].height = k

\* C26 witness: the block of BOB's vote number 3 has height 3, its ancestors
\* of height 2 and 0 are the blocks of his votes number 2 and 0, and it has
\* none of height 4
C26_Witness ==
    /\ Hash(lane_b(3)) \in DOMAIN blocks
    /\ blocks[Hash(lane_b(3))].height = 3
    /\ find_ancestor(Hash(lane_b(3)), 3) = Some(Hash(lane_b(3)))
    /\ find_ancestor(Hash(lane_b(3)), 2) = Some(Hash(lane_b(2)))
    /\ find_ancestor(Hash(lane_b(3)), 0) = Some(Hash(lane_b(0)))
    /\ find_ancestor(Hash(lane_b(3)), 4) = NoneOpt

\* no two wire votes of the swimlanes have the same hash
LaneHashCollisionFree ==
    \A v, w \in LaneVotes : Hash(v) = Hash(w) => v = w

\* C27: the block of every stored vote is stored; a vote without values
\* votes for the fork choice of its panorama, and a vote with values votes
\* for its own block, whose parent is the fork choice of its panorama.
C27_VoteBlock ==
    \A h \in DOMAIN votes :
        /\ votes[h].block \in DOMAIN blocks
        /\ IF Unwrap(wire_vote(h)).values = NoneOpt
           THEN fork_choice(votes[h].panorama) = Some(votes[h].block)
           ELSE /\ votes[h].block = h
                /\ blocks[h].parent = fork_choice(votes[h].panorama)

\* C27 witness: the ballot fork_b1 votes for the fork choice of its panorama,
\* and the block of fork_b1v has the block of fork_b0 as its parent although
\* the state's own fork choice is a later block
C27_Witness ==
    /\ {Hash(fork_b1), Hash(fork_b1v), Hash(fork_c1)} \subseteq DOMAIN votes
    /\ Unwrap(wire_vote(Hash(fork_b1))).values = NoneOpt
    /\ fork_choice(fork_b1.panorama) = Some(votes[Hash(fork_b1)].block)
    /\ blocks[Hash(fork_b1v)].parent = Some(Hash(fork_b0))
    /\ fork_choice(panorama) \notin {NoneOpt, OptPanic, Some(Hash(fork_b0))}

\* the votes of the swimlane of vhash, as a set
Lane(vhash) == {swimlane(vhash)[i] : i \in DOMAIN swimlane(vhash)}

\* the arm (None, _) of update_panorama: the state has no vote of the sender,
\* the vote cites one or sees the sender as faulty
MissingOwnPrevious(wvote) ==
    /\ panorama[wvote.sender] = ObsNone
    /\ wvote.panorama[wvote.sender] # ObsNone

\* C28: where the state's panorama is None for s no stored vote is by s;
\* where it is Correct(h0) every stored vote by s is in the swimlane of h0,
\* so that s has at most one stored vote per sequence number and h0 is the
\* one with the highest; and no vote that passes validate_vote reaches the
\* panic "missing own previous vote" of update_panorama.
C28_SwimlaneInvariant ==
    /\ \A s \in ValidatorIndices :
           /\ panorama[s] = ObsNone => StoredBy(s) = {}
           /\ is_correct(panorama[s])
                  => /\ panorama[s].hash \in StoredBy(s)
                     /\ StoredBy(s) = Lane(panorama[s].hash)
                     /\ ~Equivocated(s)
                     /\ \A h \in StoredBy(s) :
                            votes[h].seq_number
                                <= votes[panorama[s].hash].seq_number
    /\ \A wvote \in WireVotes :
           validate_vote(wvote) = "Ok" => ~MissingOwnPrevious(wvote)

\* C28 witness: b2 was accepted, the state has BOB's three votes, all in the
\* swimlane of b2, and still nothing of ALICE, whose vote a0 would pass
C28_Witness ==
    /\ AddVoteOk /\ call.wvote = b2
    /\ panorama[BOB] = Correct(Hash(b2))
    /\ swimlane(Hash(b2)) = <<Hash(b2), Hash(b1), Hash(b0)>>
    /\ Cardinality(StoredBy(BOB)) = 3
    /\ panorama[ALICE] = ObsNone
    /\ validate_vote(a0) = "Ok"

\* C29: an add_vote that returns Ok for a vote of sender s changes the
\* state's panorama at index s only and the evidence store at key s only,
\* and leaves every vote and block stored under another hash as it was; the
\* weights and the number of validators of the panorama never change.
C29_AddVoteFrame ==
    /\ [](weights = WEIGHTS /\ DOMAIN panorama = ValidatorIndices)
    /\ [][(call'.op = "add_vote" /\ ret' = RetOk)
            => /\ \A idx \in ValidatorIndices \ {call'.wvote.sender} :
                      /\ panorama'[idx] = panorama[idx]
                      /\ (idx \in DOMAIN evidence') = (idx \in DOMAIN evidence)
                      /\ idx \in DOMAIN evidence
                             => evidence'[idx] = evidence[idx]
               /\ \A h \in DOMAIN votes \ {Hash(call'.wvote)} :
                      h \in DOMAIN votes' /\ votes'[h] = votes[h]
               /\ \A h \in DOMAIN blocks \ {Hash(call'.wvote)} :
                      h \in DOMAIN blocks' /\ blocks'[h] = blocks[h]
               /\ DOMAIN votes' \subseteq DOMAIN votes \cup {Hash(call'.wvote)}
               /\ DOMAIN blocks' \subseteq DOMAIN blocks \cup {Hash(call'.wvote)}]_vars

\* C29 witness: ALICE's second vote number 1 was accepted: her index is
\* Faulty and the evidence is under her key, while BOB's and CAROL's
\* observations are Correct and they have no evidence
C29_Witness ==
    /\ AddVoteOk /\ call.wvote = ae1
    /\ DOMAIN evidence = {ALICE}
    /\ evidence[ALICE].vote1 = ae1
    /\ panorama[ALICE] = ObsFaulty
    /\ is_correct(panorama[BOB]) /\ is_correct(panorama[CAROL])
    /\ Hash(a1) \in DOMAIN votes

\* C30: for a panorama whose Correct observations are all stored votes, the
\* value of fork_choice is the same in every later state: no add_vote and no
\* add_evidence changes it.
C30_ForkChoiceStable ==
    asked # NoneOpt
        => /\ PanStored(Unwrap(asked).pan)
           /\ fork_choice(Unwrap(asked).pan) = Unwrap(asked).result

\* C30 witness: the fork choice of the panorama of fork_c1 was asked for
\* first and was the block of fork_c0; then the proof against BOB came in
\* and fork_a1 was accepted; the state's fork choice is the block of fork_a1
\* and that of the panorama of fork_c1 is still the block of fork_c0
C30_Witness ==
    /\ AddVoteOk /\ call.wvote = fork_a1
    /\ BOB \in DOMAIN evidence
    /\ asked = Some([pan |-> fork_c1.panorama, result |-> Some(Hash(fork_c0))])
    /\ fork_choice(panorama) = Some(Hash(fork_a1))
    /\ fork_choice(fork_c1.panorama) = Some(Hash(fork_c0))

====
